---- MODULE Spec2Model ----
(***************************************************************************)
(* Model of the VoiceAgent WebSocket servers.                              *)
(*                                                                         *)
(* Turn-based agent (agent_server.py, handle_client): one handler task per *)
(* connection on a single asyncio event loop.  A binary frame is decoded,  *)
(* transcribed by the shared Moonshine transcriber (a synchronous call on  *)
(* the event-loop thread), completed by the LLM and synthesised by the TTS *)
(* service (both awaited through run_in_executor).                         *)
(*                                                                         *)
(* Texts are sequences of one-character-like tokens (strings), so that     *)
(* str.strip, str.split and ' '.join are computed, not assumed.            *)
(***************************************************************************)
EXTENDS Integers, Sequences, FiniteSets, TLC

(***************************************************************************)
(* Bounds of the model.                                                    *)
(***************************************************************************)
\* utterances with a non-empty transcript, over all sessions of a run
MaxTurns == 2
\* the same, in the runs of one session alone that fill the history window
MaxTurnsLong == 12
\* completion calls that fail or time out, over all sessions of a run
MaxLLMFailures == 1
\* clear_history messages, over all sessions of a run
MaxClears == 1
MaxInbox == 2

\* the connections of a run
Sessions == {"a", "b"}

(***************************************************************************)
(* Program constants.                                                      *)
(***************************************************************************)
SAMPLE_RATE == 16000
\* n_samples < SAMPLE_RATE * 0.3, computed in tenths to stay in the integers
MIN_AUDIO_TENTHS == 3
\* if len(conversation) > 20: conversation = conversation[-20:]
HISTORY_WINDOW == 20
\* struct format 'f': four bytes per sample
BYTES_PER_SAMPLE == 4

FALLBACK == <<"Sorry, I couldn't process that. Could you try again?">>

(***************************************************************************)
(* Python string operations on token sequences.                            *)
(***************************************************************************)
IsSpace(c) == c \in {" ", "\n"}

RECURSIVE LStrip(_)
LStrip(t) ==
  IF t = <<>> THEN <<>>
  ELSE IF IsSpace(Head(t)) THEN LStrip(Tail(t)) ELSE t

RECURSIVE RStrip(_)
RStrip(t) ==
  IF t = <<>> THEN <<>>
  ELSE IF IsSpace(t[Len(t)]) THEN RStrip(SubSeq(t, 1, Len(t) - 1)) ELSE t

\* str.strip()
Strip(t) == RStrip(LStrip(t))

\* c in t
Contains(t, c) == \E i \in 1..Len(t) : t[i] = c

\* index of the first occurrence of c in t (t contains c)
FirstIndex(t, c) ==
  CHOOSE i \in 1..Len(t) : t[i] = c /\ \A j \in 1..(i - 1) : t[j] # c

\* str.split(sep): the pieces between the occurrences of sep
RECURSIVE Split(_, _)
Split(t, sep) ==
  IF ~Contains(t, sep) THEN <<t>>
  ELSE LET i == FirstIndex(t, sep)
       IN  <<SubSeq(t, 1, i - 1)>> \o Split(SubSeq(t, i + 1, Len(t)), sep)

\* str.split(sep, 1)[1]: what follows the first sep (t contains sep)
AfterFirst(t, sep) == SubSeq(t, FirstIndex(t, sep) + 1, Len(t))

\* sep.join(parts)
RECURSIVE Join(_, _)
Join(parts, sep) ==
  IF parts = <<>> THEN <<>>
  ELSE IF Len(parts) = 1 THEN parts[1]
  ELSE parts[1] \o <<sep>> \o Join(Tail(parts), sep)

\* the loop of transcribe_audio over the lines of the engine's result
RECURSIVE TranscriptLines(_)
TranscriptLines(pieces) ==
  IF pieces = <<>> THEN <<>>
  ELSE LET line == Strip(Head(pieces))
           text == IF Contains(line, "]") THEN Strip(AfterFirst(line, "]")) ELSE line
       IN  (IF line # <<>> /\ text # <<>> THEN <<text>> ELSE <<>>)
             \o TranscriptLines(Tail(pieces))

\* transcribe_audio(...)['text'] for the engine result raw
TranscribeText(raw) == Join(TranscriptLines(Split(Strip(raw), "\n")), " ")

(***************************************************************************)
(* Inputs: frames of the client and results of the collaborators.          *)
(***************************************************************************)
\* decimal numerals, to build distinct utterances and replies
Numeral ==
  <<"0", "1", "2", "3", "4", "5", "6", "7", "8", "9", "10", "11", "12", "13",
    "14", "15", "16", "17", "18", "19", "20", "21", "22", "23", "24", "25">>
Str(n) == Numeral[n + 1]

\* byte lengths of binary frames: empty, misaligned, 4799 samples,
\* 4800 samples, misaligned above the minimum
FrameLengths == {0, 5, 19196, 19200, 19202}

\* text frames of the client
TextFrames ==
  { "{\"type\": \"ping\"}",
    "{\"type\": \"clear_history\"}",
    "{\"type\": \"start_stream\"}",
    "{}",
    "[1]",
    "{\"type\": " }

\* json.loads on the text frames above: ok is FALSE when JSONDecodeError is
\* raised; isdict tells a JSON object from another JSON value; type is the
\* value of data.get('type') ("" when the key is absent)
json_loads(m) ==
  CASE m = "{\"type\": \"ping\"}"          -> [ok |-> TRUE, isdict |-> TRUE, type |-> "ping"]
    [] m = "{\"type\": \"clear_history\"}" -> [ok |-> TRUE, isdict |-> TRUE, type |-> "clear_history"]
    [] m = "{\"type\": \"start_stream\"}"  -> [ok |-> TRUE, isdict |-> TRUE, type |-> "start_stream"]
    [] m = "{\"type\": \"stop_stream\"}"   -> [ok |-> TRUE, isdict |-> TRUE, type |-> "stop_stream"]
    [] m = "{}"                            -> [ok |-> TRUE, isdict |-> TRUE, type |-> ""]
    [] m = "[1]"                           -> [ok |-> TRUE, isdict |-> FALSE, type |-> ""]
    [] OTHER                               -> [ok |-> FALSE, isdict |-> FALSE, type |-> ""]

\* results of transcribe_without_streaming for an utterance whose words are w:
\* nothing, blanks only, a timestamp without text, a timestamped line, a
\* plain line followed by a blank line
EngineResults(w) ==
  { <<>>,
    <<" ", "\n", " ">>,
    <<"[", "0.10s", "]", " ">>,
    <<"[", "0.10s", "]", " ">> \o w,
    <<" ">> \o w \o <<"\n", " ", "\n">> }

\* byte lengths of the MP3 the synthesis service returns
AudioSizes == {0, 1, 2}

\* outcomes of generate_tts: an exception, or the bytes returned
TTSOutcomes ==
  {[ok |-> FALSE, size |-> 0]} \cup {[ok |-> TRUE, size |-> n] : n \in AudioSizes}

(***************************************************************************)
(* State.                                                                  *)
(***************************************************************************)
VARIABLES
  session,  \* per connection, the handler task of handle_client:
            \*   pc             position of the task
            \*   conn           the connection: "open" or "closed"
            \*   conversation   the list of {role, content}
            \*   user_text, response_text, tts_audio (byte length)   locals
            \*   sent           frames sent while handling the message taken
            \*                  last from the socket
            \*   calls          collaborator calls made while handling it
            \*   llm_context    argument of its get_llm_response call
            \*   tts_text       argument of its generate_tts call
            \*   llm_failed     whether its completion call raised
            \*   turns          turns whose two entries were appended since
            \*                  the last clear
            \*   epoch          clear_history messages handled
            \*   appended       every entry appended since the last clear
            \*   trimmed        whether conversation[-20:] has dropped entries
  loop,     \* the event-loop thread: "free", or the session whose
            \* synchronous transcription call occupies it
  used,     \* utterances with a non-empty transcript so far, all sessions
  faults,   \* completion failures so far, all sessions
  clears,   \* clear_history messages so far, all sessions
  budget,   \* utterances with a non-empty transcript the run may hold
  inbox,    \* per connection, the frames received and not yet taken by
            \* async for message in websocket, oldest first
  stream    \* per connection of the streaming server, the handler task of
            \* its handle_client and its StreamingSession:
            \*   pc             position of the task
            \*   conn           the connection: "open" or "closed"
            \*   is_streaming, partial_text   fields of StreamingSession
            \*   engine         the session's Transcriber: "new", "started",
            \*                  "fed" (audio added since start()), "stopped"
            \*                  or "closed"
            \*   closes         calls of transcriber.close()
            \*   misused        whether the transcriber was used after close()
            \*   sent           frames sent while handling the message taken
            \*                  last from the socket
            \*   since_start    text of the latest partial_transcript sent
            \*                  since the latest start_stream (<<>>: none)
            \*   stops          stop_stream commands handled since the latest
            \*                  start_stream, counted up to two
            \*   dropped        the latest message was a chunk taken while no
            \*                  stream was active
            \*   suppressed     the latest chunk gave the text already sent
            \*                  and no event was sent for it
            \*   last_partial   text of the latest partial_transcript sent on
            \*                  the connection (<<>> when none was sent)

tvars == <<session, loop, used, faults, clears, budget>>

vars == <<tvars, inbox, stream>>

Event(type, text, size) == [type |-> type, text |-> text, size |-> size]

Entry(role, content) == [role |-> role, content |-> content]

\* the words of the next utterance of session s, and the reply to it
Utterance(s) == <<"u", s, Str(session[s].epoch), Str(session[s].turns + 1)>>
Reply(s) == <<"r", s, Str(session[s].epoch), Str(session[s].turns + 1)>>

\* the handler of a connection just accepted: conversation = []
NewSession ==
  [pc |-> "idle", conn |-> "open", conversation |-> <<>>, user_text |-> <<>>,
   response_text |-> <<>>, tts_audio |-> 0, sent |-> <<>>, calls |-> <<>>,
   llm_context |-> <<>>, tts_text |-> <<>>, llm_failed |-> FALSE, turns |-> 0,
   epoch |-> 0, appended |-> <<>>, trimmed |-> FALSE, tts_failed |-> FALSE]

\* the handler has returned ("closed") or raised ("crashed"): its frame,
\* conversation included, is gone and the connection is closed
Gone(how) == [NewSession EXCEPT !.pc = how, !.conn = "closed"]

\* the next message is taken from the socket: the locals of the previous
\* message are dead (each is assigned before it is read again)
Fresh(h) ==
  [h EXCEPT !.user_text = <<>>, !.response_text = <<>>, !.tts_audio = 0,
            !.sent = <<>>, !.calls = <<>>, !.llm_context = <<>>,
            !.tts_text = <<>>, !.llm_failed = FALSE, !.tts_failed = FALSE]

\* session = StreamingSession() for a connection just accepted
NewStream ==
  [pc |-> "idle", conn |-> "open", is_streaming |-> FALSE, partial_text |-> <<>>,
   engine |-> "new", closes |-> 0, misused |-> FALSE, sent |-> <<>>,
   since_start |-> <<>>, stops |-> 0, suppressed |-> FALSE, dropped |-> FALSE,
   last_partial |-> <<>>]

Init ==
  /\ session = [s \in Sessions |-> NewSession]
  /\ loop = "free"
  /\ used = 0
  /\ faults = 0
  /\ clears = 0
  /\ budget = MaxTurns
  /\ inbox = [s \in Sessions |-> <<>>]
  /\ stream = [s \in Sessions |-> NewStream]

\* one client alone: the other connection was closed and its handler returned
InitLong ==
  /\ session = [s \in Sessions |-> IF s = "a" THEN NewSession ELSE Gone("closed")]
  /\ loop = "free"
  /\ used = 0
  /\ faults = 0
  /\ clears = 0
  /\ budget = MaxTurnsLong
  /\ inbox = [s \in Sessions |-> <<>>]
  /\ stream = [s \in Sessions |-> NewStream]

(***************************************************************************)
(* Steps of handle_client.                                                 *)
(***************************************************************************)
\* a handler task runs only while no synchronous call holds the event loop
Scheduled(s) == loop = "free"

\* mutant: transcribe_audio offloaded to a worker thread
LoopDuringTranscribeOffloaded(s) == "free"

\* the owner of the event-loop thread during transcribe_audio: the call is
\* made directly in the coroutine, so the calling session holds the loop
LoopDuringTranscribe(s) == s

\* mutant: the minimum taken as 0.1 s
TooShortTenth(n_samples) == n_samples * 10 < SAMPLE_RATE

\* n_samples < SAMPLE_RATE * 0.3
TooShort(n_samples) == n_samples * 10 < SAMPLE_RATE * MIN_AUDIO_TENTHS

\* mutant: the history is never cut
TrimHistoryNone(c) == c

\* if len(conversation) > 20: conversation = conversation[-20:]
TrimHistory(c) ==
  IF Len(c) > HISTORY_WINDOW
  THEN SubSeq(c, Len(c) - HISTORY_WINDOW + 1, Len(c))
  ELSE c

\* mutant: no fallback text in the except branch
CompletionTextEmpty(outcome, reply) == IF outcome = "ok" THEN reply ELSE <<>>

\* try: response_text = await get_llm_response(conversation)
\* except Exception: response_text = "Sorry, ..."
CompletionText(outcome, reply) == IF outcome = "ok" THEN reply ELSE FALLBACK

\* the header {'type': 'tts_audio', 'format': 'mp3', 'size': len(tts_audio)}
AudioHeader(audio) == Event("tts_audio", <<"mp3">>, audio)

\* mutant: the frame lacks the last byte of the audio
AudioFrameTruncated(audio) == Event("binary", <<>>, audio - 1)

\* websocket.send(tts_audio): a binary frame of len(tts_audio) bytes
AudioFrame(audio) == Event("binary", <<>>, audio)

\* mutant: the history is not cleared
ClearedHistoryKept(c) == c

\* conversation.clear()
ClearedHistory(c) == <<>>

ErrorShort == Event("error", <<"Audio too short (< 300ms)">>, 0)
ErrorNoSpeech == Event("error", <<"No speech detected">>, 0)

\* mutant: one conversation list shared by all handlers
PutShared(s, h) ==
  session' = [o \in Sessions |->
                IF o = s THEN h
                ELSE [session[o] EXCEPT !.conversation = h.conversation]]

\* conversation and the other locals of a handler belong to its own call of
\* handle_client: a step of session s assigns those of s only
Put(s, h) == session' = [session EXCEPT ![s] = h]

\* mutant: a message is taken whenever the connection is open
AwaitingMessageAnyTime(s) == session[s].conn = "open"

\* the handler is suspended in async for message in websocket: it takes a
\* message only between two passes of the loop body
AwaitingMessage(s) == session[s].pc = "idle" /\ session[s].conn = "open"

\* a binary frame of nbytes bytes is taken from the socket
HandleBinary(s, nbytes) ==
  /\ AwaitingMessage(s) /\ Scheduled(s)
  /\ LET h == Fresh(session[s])
         n_samples == nbytes \div BYTES_PER_SAMPLE
     IN  IF nbytes % BYTES_PER_SAMPLE # 0
         THEN \* struct.unpack raises struct.error, which nothing catches
              /\ Put(s, Gone("crashed"))
              /\ loop' = loop
         ELSE IF TooShort(n_samples)
         THEN /\ Put(s, [h EXCEPT !.sent = <<ErrorShort>>])
              /\ loop' = loop
         ELSE \* transcribe_audio is entered
              /\ Put(s, [h EXCEPT !.pc = "transcribing", !.calls = <<"stt">>])
              /\ loop' = LoopDuringTranscribe(s)
  /\ UNCHANGED <<used, faults, clears, budget, stream>>

\* mutant: the transcript is not sent before the completion call
AfterTranscribeUnsent(h, text) ==
  IF Strip(text) = <<>>
  THEN [h EXCEPT !.user_text = text,
                 !.sent = Append(@, ErrorNoSpeech),
                 !.pc = "idle"]
  ELSE LET conv == TrimHistory(Append(h.conversation, Entry("user", text)))
       IN  [h EXCEPT !.user_text = text,
                     !.conversation = conv,
                     !.appended = Append(@, Entry("user", text)),
                     !.llm_context = conv,
                     !.calls = Append(@, "llm"),
                     !.pc = "completing"]

\* mutant: a blank transcript is taken as an utterance
AfterTranscribeUnchecked(h, text) ==
  LET conv == TrimHistory(Append(h.conversation, Entry("user", text)))
  IN  [h EXCEPT !.user_text = text,
                !.sent = Append(@, Event("user_message", text, 0)),
                !.conversation = conv,
                !.appended = Append(@, Entry("user", text)),
                !.trimmed = @ \/ Len(h.conversation) + 1 > HISTORY_WINDOW,
                !.llm_context = conv,
                !.calls = Append(@, "llm"),
                !.pc = "completing"]

\* the steps from the return of transcribe_without_streaming to the await of
\* get_llm_response, on an open connection, for the transcript text
AfterTranscribe(h, text) ==
  IF Strip(text) = <<>>
  THEN [h EXCEPT !.user_text = text,
                 !.sent = Append(@, ErrorNoSpeech),
                 !.pc = "idle"]
  ELSE LET conv == TrimHistory(Append(h.conversation, Entry("user", text)))
       IN  [h EXCEPT !.user_text = text,
                     !.sent = Append(@, Event("user_message", text, 0)),
                     !.conversation = conv,
                     !.appended = Append(@, Entry("user", text)),
                     !.trimmed = @ \/ Len(h.conversation) + 1 > HISTORY_WINDOW,
                     !.llm_context = conv,
                     !.calls = Append(@, "llm"),
                     !.pc = "completing"]

\* transcribe_without_streaming returns raw
TranscribeReturn(s, raw) ==
  /\ session[s].pc = "transcribing" /\ loop = LoopDuringTranscribe(s)
  /\ raw \in EngineResults(Utterance(s))
  /\ TranscribeText(raw) # <<>> => used < budget
  /\ loop' = "free"
  /\ IF session[s].conn # "open"
     THEN \* websocket.send raises ConnectionClosed: the handler returns
          /\ Put(s, Gone("closed"))
          /\ used' = used
     ELSE /\ Put(s, AfterTranscribe(session[s], TranscribeText(raw)))
          /\ used' = IF Strip(TranscribeText(raw)) = <<>> THEN used ELSE used + 1
  /\ UNCHANGED <<faults, clears, budget, inbox, stream>>

\* transcribe_audio raises (transcribe_without_streaming fails on the audio):
\* nothing in handle_client catches it
TranscribeRaise(s) ==
  /\ session[s].pc = "transcribing" /\ loop = LoopDuringTranscribe(s)
  /\ loop' = "free"
  /\ Put(s, Gone("crashed"))
  /\ UNCHANGED <<used, faults, clears, budget, inbox, stream>>

\* mutant: the reply is sent and synthesized but not appended to the history
AfterCompletionUnrecorded(h, outcome, reply) ==
  LET text == CompletionText(outcome, reply)
  IN  [h EXCEPT !.response_text = text,
                !.llm_failed = (outcome # "ok"),
                !.turns = @ + 1,
                !.sent = Append(@, Event("agent_response", text, 0)),
                !.calls = Append(@, "tts"),
                !.tts_text = text,
                !.pc = "synthesizing"]

\* the steps from the return of get_llm_response to the await of
\* generate_tts, on an open connection
AfterCompletion(h, outcome, reply) ==
  LET text == CompletionText(outcome, reply)
  IN  [h EXCEPT !.response_text = text,
                !.llm_failed = (outcome # "ok"),
                !.conversation = Append(@, Entry("assistant", text)),
                !.appended = Append(@, Entry("assistant", text)),
                !.turns = @ + 1,
                !.sent = Append(@, Event("agent_response", text, 0)),
                !.calls = Append(@, "tts"),
                !.tts_text = text,
                !.pc = "synthesizing"]

\* get_llm_response returns ("ok") or raises ("fail")
LLMReturn(s, outcome) ==
  /\ session[s].pc = "completing" /\ Scheduled(s)
  /\ outcome \in {"ok", "fail"}
  /\ outcome = "fail" => faults < MaxLLMFailures
  /\ faults' = IF outcome = "fail" THEN faults + 1 ELSE faults
  /\ IF session[s].conn # "open"
     THEN \* websocket.send raises ConnectionClosed: the handler returns
          Put(s, Gone("closed"))
     ELSE Put(s, AfterCompletion(session[s], outcome, Reply(s)))
  /\ UNCHANGED <<loop, used, clears, budget, inbox, stream>>

\* mutant: a failure of generate_tts is reported to the client
AfterSynthesisReportsError(h, outcome) ==
  IF ~outcome.ok
  THEN [h EXCEPT !.tts_failed = TRUE,
                 !.sent = Append(@, Event("error", <<"TTS failed">>, 0)),
                 !.pc = "idle"]
  ELSE IF outcome.size = 0 \/ h.conn # "open"
  THEN [h EXCEPT !.tts_audio = outcome.size, !.pc = "idle"]
  ELSE [h EXCEPT !.tts_audio = outcome.size,
                 !.sent = Append(@, AudioHeader(outcome.size)),
                 !.pc = "sending_audio"]

\* the body of the try around generate_tts, up to the send of the header
AfterSynthesis(h, outcome) ==
  IF ~outcome.ok
  THEN \* except Exception: print
       [h EXCEPT !.tts_failed = TRUE, !.pc = "idle"]
  ELSE IF outcome.size = 0 \/ h.conn # "open"
  THEN \* a falsy result, or ConnectionClosed caught as an Exception
       [h EXCEPT !.tts_audio = outcome.size, !.pc = "idle"]
  ELSE [h EXCEPT !.tts_audio = outcome.size,
                 !.sent = Append(@, AudioHeader(outcome.size)),
                 !.pc = "sending_audio"]

\* generate_tts raises (~outcome.ok) or returns outcome.size bytes
TTSReturn(s, outcome) ==
  /\ session[s].pc = "synthesizing" /\ Scheduled(s)
  /\ outcome \in TTSOutcomes
  /\ Put(s, AfterSynthesis(session[s], outcome))
  /\ UNCHANGED <<loop, used, faults, clears, budget, inbox, stream>>

\* await websocket.send(tts_audio); ConnectionClosed is caught as an Exception
SendAudio(s) ==
  /\ session[s].pc = "sending_audio" /\ Scheduled(s)
  /\ LET h == session[s]
     IN  Put(s, [h EXCEPT !.sent = IF h.conn = "open"
                                    THEN Append(@, AudioFrame(h.tts_audio))
                                    ELSE @,
                          !.pc = "idle"])
  /\ UNCHANGED <<loop, used, faults, clears, budget, inbox, stream>>

\* the branch isinstance(message, str) for the parsed frame data
AfterText(h, data) ==
  IF ~data.ok \/ ~data.isdict
  THEN \* JSONDecodeError, or AttributeError on data.get: nothing catches it
       Gone("crashed")
  ELSE IF data.type = "ping"
  THEN [h EXCEPT !.sent = <<Event("pong", <<>>, 0)>>]
  ELSE IF data.type = "clear_history"
  THEN [h EXCEPT !.conversation = ClearedHistory(@),
                 !.sent = <<Event("history_cleared", <<>>, 0)>>,
                 !.turns = 0,
                 !.epoch = @ + 1,
                 !.appended = <<>>]
  ELSE h

\* a text frame m is taken from the socket
HandleText(s, m) ==
  /\ AwaitingMessage(s) /\ Scheduled(s)
  /\ LET data == json_loads(m)
         isclear == data.ok /\ data.isdict /\ data.type = "clear_history"
     IN  /\ isclear => clears < MaxClears
         /\ clears' = IF isclear THEN clears + 1 ELSE clears
         /\ Put(s, AfterText(Fresh(session[s]), data))
  /\ UNCHANGED <<loop, used, faults, budget, stream>>

\* the client closes the connection
ClientClose(s) ==
  /\ session[s].conn = "open"
  /\ Put(s, [session[s] EXCEPT !.conn = "closed"])
  /\ UNCHANGED <<loop, used, faults, clears, budget, inbox, stream>>

\* async for ends on the closed connection (ConnectionClosed is passed over)
HandlerExit(s) ==
  /\ session[s].pc = "idle" /\ session[s].conn = "closed" /\ Scheduled(s)
  /\ Put(s, Gone("closed"))
  /\ UNCHANGED <<loop, used, faults, clears, budget, inbox, stream>>

\* a frame arrives while the handler waits for one, and is taken at once
RecvBinary(s, nbytes) == HandleBinary(s, nbytes) /\ UNCHANGED inbox
RecvText(s, m) == HandleText(s, m) /\ UNCHANGED inbox

Next ==
  \E s \in Sessions :
    \/ \E nbytes \in FrameLengths : RecvBinary(s, nbytes)
    \/ \E raw \in EngineResults(Utterance(s)) : TranscribeReturn(s, raw)
    \/ TranscribeRaise(s)
    \/ \E outcome \in {"ok", "fail"} : LLMReturn(s, outcome)
    \/ \E outcome \in TTSOutcomes : TTSReturn(s, outcome)
    \/ SendAudio(s)
    \/ \E m \in TextFrames : RecvText(s, m)
    \/ ClientClose(s)
    \/ HandlerExit(s)

Spec == Init /\ [][Next]_vars

SpecLong == InitLong /\ [][Next]_vars


(***************************************************************************)
(* The frames of a connection that wait while its handler is busy.         *)
(***************************************************************************)
\* a frame of the client: a binary one by its length, a text one by its text
BinaryFrame(nbytes) == [bytes |-> TRUE, nbytes |-> nbytes, text |-> ""]
TextFrame(m) == [bytes |-> FALSE, nbytes |-> 0, text |-> m]
\* the frames that may wait: a misaligned one, a short one, an utterance,
\* the two control messages and a text without a type
Messages ==
  {BinaryFrame(nbytes) : nbytes \in {5, 19196, 19200}}
    \cup {TextFrame(m) : m \in {"{\"type\": \"ping\"}",
                                "{\"type\": \"clear_history\"}",
                                "{}"}}

\* one client alone, as in InitLong, with the turns of Init
InitQueue ==
  /\ session = [s \in Sessions |-> IF s = "a" THEN NewSession ELSE Gone("closed")]
  /\ loop = "free"
  /\ used = 0
  /\ faults = 0
  /\ clears = 0
  /\ budget = MaxTurns
  /\ inbox = [s \in Sessions |-> <<>>]
  /\ stream = [s \in Sessions |-> NewStream]

\* the client sends a frame: the library receives it and keeps it until the
\* handler asks for the next message
Arrive(s, msg) ==
  /\ session[s].conn = "open"
  /\ Len(inbox[s]) < MaxInbox
  /\ inbox' = [inbox EXCEPT ![s] = Append(@, msg)]
  /\ UNCHANGED <<tvars, stream>>

\* async for hands the handler the oldest frame that waits
TakeMessage(s) ==
  /\ inbox[s] # <<>>
  /\ LET msg == Head(inbox[s])
     IN  IF msg.bytes THEN HandleBinary(s, msg.nbytes) ELSE HandleText(s, msg.text)
  /\ inbox' = [inbox EXCEPT ![s] = Tail(@)]

\* the connection is closed while frames wait: the library may still hand
\* them to the handler before async for ends (HandlerExit is the other
\* outcome). A frame that makes the handler send ends it with
\* ConnectionClosed; a frame of a whole utterance starts the transcription.
TakeBuffered(s) ==
  /\ session[s].pc = "idle" /\ session[s].conn = "closed" /\ Scheduled(s)
  /\ inbox[s] # <<>>
  /\ LET msg == Head(inbox[s])
         h == Fresh(session[s])
         data == json_loads(msg.text)
     IN  IF msg.bytes
         THEN IF msg.nbytes % BYTES_PER_SAMPLE # 0
              THEN Put(s, Gone("crashed")) /\ loop' = loop
              ELSE IF TooShort(msg.nbytes \div BYTES_PER_SAMPLE)
              THEN Put(s, Gone("closed")) /\ loop' = loop
              ELSE /\ Put(s, [h EXCEPT !.pc = "transcribing", !.calls = <<"stt">>])
                   /\ loop' = LoopDuringTranscribe(s)
         ELSE /\ loop' = loop
              /\ IF ~data.ok \/ ~data.isdict
                 THEN Put(s, Gone("crashed"))
                 ELSE IF data.type \in {"ping", "clear_history"}
                 THEN Put(s, Gone("closed"))
                 ELSE Put(s, h)
  /\ inbox' = [inbox EXCEPT ![s] = Tail(@)]
  /\ UNCHANGED <<used, faults, clears, budget, stream>>

QueueNext ==
  \E s \in Sessions :
    \/ \E msg \in Messages : Arrive(s, msg)
    \/ TakeMessage(s)
    \/ TakeBuffered(s)
    \/ \E raw \in EngineResults(Utterance(s)) : TranscribeReturn(s, raw)
    \/ TranscribeRaise(s)
    \/ \E outcome \in {"ok", "fail"} : LLMReturn(s, outcome)
    \/ \E outcome \in TTSOutcomes : TTSReturn(s, outcome)
    \/ SendAudio(s)
    \/ ClientClose(s)
    \/ HandlerExit(s)

SpecQueue == InitQueue /\ [][QueueNext]_vars

(***************************************************************************)
(* The streaming server (server_streaming.py).                             *)
(***************************************************************************)
\* text frames of the client of the streaming server
StreamFrames ==
  { "{\"type\": \"start_stream\"}",
    "{\"type\": \"stop_stream\"}",
    "{\"type\": \"ping\"}",
    "{}",
    "{\"type\": " }

\* byte lengths of audio chunks: empty, misaligned, CHUNK_SIZE samples
ChunkLengths == {0, 6, 16384}

\* results of update_transcription: None, or a transcript whose str() is
\* raw: empty, a timestamp without text, one line, two lines, a plain line
PartialResults ==
  { [some |-> FALSE, raw |-> <<>>],
    [some |-> TRUE, raw |-> <<>>],
    [some |-> TRUE, raw |-> <<"[", "0.10s", "]">>],
    [some |-> TRUE, raw |-> <<"[", "0.10s", "]", " ", "hello">>],
    [some |-> TRUE, raw |-> <<"[", "0.10s", "]", " ", "hello", "\n",
                              "[", "0.90s", "]", " ", "there", "\n">>],
    [some |-> TRUE, raw |-> <<" ", "hello", " ">>] }

\* the loop of StreamingSession._extract_text over the lines of raw
RECURSIVE ExtractLines(_)
ExtractLines(pieces) ==
  IF pieces = <<>> THEN <<>>
  ELSE LET line == Strip(Head(pieces))
       IN  (IF Contains(line, "]") THEN <<Strip(AfterFirst(line, "]"))>>
            ELSE IF line # <<>> THEN <<line>>
            ELSE <<>>)
             \o ExtractLines(Tail(pieces))

\* StreamingSession._extract_text
ExtractText(raw) == Join(ExtractLines(Split(Strip(raw), "\n")), " ")

\* a call of a method of the session's transcriber that leaves it in state to:
\* a call on a closed transcriber is recorded in misused
EngineCall(h, to) ==
  IF h.engine = "closed"
  THEN [h EXCEPT !.misused = TRUE]
  ELSE [h EXCEPT !.engine = to]

\* StreamingSession.start_stream
start_stream(h) ==
  EngineCall([h EXCEPT !.is_streaming = TRUE, !.partial_text = <<>>], "started")

\* feed_audio without the comparison with the text sent last
feed_audioUnchecked(h, result) ==
  IF ~h.is_streaming
  THEN [session |-> h, partial |-> <<>>]
  ELSE LET fed == EngineCall(h, "fed")
           text == ExtractText(result.raw)
       IN  IF result.some /\ text # <<>>
           THEN [session |-> [fed EXCEPT !.partial_text = text], partial |-> text]
           ELSE [session |-> fed, partial |-> <<>>]

\* feed_audio without the test of is_streaming
feed_audioAlways(h, result) ==
  LET fed == EngineCall(h, "fed")
      text == ExtractText(result.raw)
  IN  IF result.some /\ text # <<>> /\ text # h.partial_text
      THEN [session |-> [fed EXCEPT !.partial_text = text], partial |-> text]
      ELSE [session |-> fed, partial |-> <<>>]

\* StreamingSession.feed_audio for the result of update_transcription: the
\* session after the call and the value returned (<<>> stands for None)
feed_audio(h, result) ==
  IF ~h.is_streaming
  THEN [session |-> h, partial |-> <<>>]
  ELSE LET fed == EngineCall(h, "fed")
           text == ExtractText(result.raw)
       IN  IF result.some /\ text # <<>> /\ text # h.partial_text
           THEN [session |-> [fed EXCEPT !.partial_text = text], partial |-> text]
           ELSE [session |-> fed, partial |-> <<>>]

\* stop_stream that keeps partial_text
stop_streamKeepsText(h) ==
  [session |-> EngineCall([h EXCEPT !.is_streaming = FALSE], "stopped"),
   final |-> h.partial_text]

\* stop_stream that closes the transcriber
stop_streamReleases(h) ==
  [session |-> [h EXCEPT !.is_streaming = FALSE, !.partial_text = <<>>,
                         !.engine = "closed", !.closes = @ + 1],
   final |-> h.partial_text]

\* stop_stream that returns no text
stop_streamEmptyFinal(h) ==
  [session |-> EngineCall([h EXCEPT !.is_streaming = FALSE,
                                    !.partial_text = <<>>], "stopped"),
   final |-> <<>>]

\* StreamingSession.stop_stream: the session after the call and the final text
stop_stream(h) ==
  [session |-> EngineCall([h EXCEPT !.is_streaming = FALSE,
                                    !.partial_text = <<>>], "stopped"),
   final |-> h.partial_text]

\* StreamingSession.close
close(h) ==
  [h EXCEPT !.engine = "closed", !.closes = @ + 1]

\* the handler leaves without session.close()
StreamGoneUnreleased(h, how) ==
  [NewStream EXCEPT !.pc = how, !.conn = "closed", !.engine = h.engine,
                    !.closes = h.closes, !.misused = h.misused,
                    !.last_partial = h.last_partial]

\* the handler leaves through finally: session.close(), then it returns
\* ("closed") or the exception goes on ("crashed")
StreamGone(h, how) ==
  LET c == close(h)
  IN  [NewStream EXCEPT !.pc = how, !.conn = "closed", !.engine = c.engine,
                        !.closes = c.closes, !.misused = c.misused,
                        !.last_partial = h.last_partial]

PutStream(s, h) == stream' = [stream EXCEPT ![s] = h]

\* the handler of the streaming server waits in async for message in websocket
StreamAwaiting(s) == stream[s].pc = "idle" /\ stream[s].conn = "open"

\* the branch isinstance(message, str) for the parsed frame data
AfterStreamText(h, data) ==
  IF ~data.ok \/ ~data.isdict
  THEN \* JSONDecodeError, or AttributeError on data.get: finally, then raised
       StreamGone(h, "crashed")
  ELSE IF data.type = "start_stream"
  THEN [start_stream(h) EXCEPT !.sent = <<Event("stream_started", <<>>, 0)>>,
                               !.since_start = <<>>,
                               !.suppressed = FALSE, !.dropped = FALSE,
                               !.stops = 0]
  ELSE IF data.type = "stop_stream"
  THEN LET r == stop_stream(h)
       IN  [r.session EXCEPT !.sent = <<Event("final_transcript", r.final, 0)>>,
                             !.suppressed = FALSE, !.dropped = FALSE,
                             !.stops = IF @ < 2 THEN @ + 1 ELSE 2]
  ELSE IF data.type = "ping"
  THEN [h EXCEPT !.sent = <<Event("pong", <<>>, 0)>>,
                 !.suppressed = FALSE, !.dropped = FALSE]
  ELSE [h EXCEPT !.sent = <<>>, !.suppressed = FALSE, !.dropped = FALSE]

\* a text frame m is taken from the socket
StreamHandleText(s, m) ==
  /\ StreamAwaiting(s)
  /\ PutStream(s, AfterStreamText(stream[s], json_loads(m)))
  /\ UNCHANGED <<tvars, inbox>>

\* the branch isinstance(message, bytes) for a chunk of nbytes bytes, when
\* update_transcription would return result
AfterStreamBinary(h, nbytes, result) ==
  IF nbytes % BYTES_PER_SAMPLE # 0
  THEN \* struct.unpack raises struct.error: finally, then raised
       StreamGone(h, "crashed")
  ELSE LET r == feed_audio(h, result)
       IN  IF r.partial # <<>>
           THEN [r.session EXCEPT
                   !.sent = <<Event("partial_transcript", r.partial, 0)>>,
                   !.since_start = r.partial,
                   !.suppressed = FALSE, !.dropped = FALSE,
                   !.last_partial = r.partial]
           ELSE [r.session EXCEPT
                   !.sent = <<>>,
                   !.suppressed = /\ h.is_streaming /\ result.some
                                  /\ ExtractText(result.raw) # <<>>
                                  /\ ExtractText(result.raw) = h.since_start,
                   !.dropped = ~h.is_streaming]

\* a binary frame of nbytes bytes is taken from the socket
StreamHandleBinary(s, nbytes, result) ==
  /\ StreamAwaiting(s)
  /\ PutStream(s, AfterStreamBinary(stream[s], nbytes, result))
  /\ UNCHANGED <<tvars, inbox>>

\* the client closes the connection
StreamClientClose(s) ==
  /\ stream[s].conn = "open"
  /\ PutStream(s, [stream[s] EXCEPT !.conn = "closed"])
  /\ UNCHANGED <<tvars, inbox>>

\* async for ends on the closed connection: finally, and the handler returns
StreamHandlerExit(s) ==
  /\ stream[s].pc = "idle" /\ stream[s].conn = "closed"
  /\ PutStream(s, StreamGone(stream[s], "closed"))
  /\ UNCHANGED <<tvars, inbox>>

StreamNext ==
  \E s \in Sessions :
    \/ \E m \in StreamFrames : StreamHandleText(s, m)
    \/ \E nbytes \in ChunkLengths : \E result \in PartialResults :
         StreamHandleBinary(s, nbytes, result)
    \/ StreamClientClose(s)
    \/ StreamHandlerExit(s)

SpecStream == Init /\ [][StreamNext]_vars

(***************************************************************************)
(* Properties.                                                             *)
(***************************************************************************)
Min(x, y) == IF x < y THEN x ELSE y

\* the last n elements of a sequence
LastN(q, n) == SubSeq(q, Len(q) - n + 1, Len(q))

Alive(s) == session[s].pc \notin {"closed", "crashed"}

\* C1: in every reachable state the conversation history of a session holds
\* at most 20 entries.
C1_HistoryAtMostWindow ==
  \A s \in Sessions : Len(session[s].conversation) <= 20

\* C2: after N completed turns with no clear_history in between, the history
\* has exactly min(2N, 20) entries, and they are the entries appended last,
\* in the order they were appended.
C2_HistoryAfterNTurns ==
  \A s \in Sessions :
    session[s].pc = "idle" =>
      LET n == Min(2 * session[s].turns, 20)
      IN  /\ Len(session[s].conversation) = n
          /\ session[s].conversation = LastN(session[s].appended, n)

\* text frames that are not a recognised control message of the agent
UnrecognisedFrames ==
  {m \in TextFrames :
     ~(json_loads(m).ok /\ json_loads(m).isdict
        /\ json_loads(m).type \in {"ping", "clear_history"})}

\* C3: a malformed JSON text frame, or a text frame that is no recognised
\* control message, emits no event, changes no session state and leaves the
\* session alive, waiting for the next message.
C3_BadTextIgnored ==
  [][\A s \in Sessions : \A m \in UnrecognisedFrames :
       HandleText(s, m) =>
         /\ session'[s].pc = "idle"
         /\ session'[s].conn = "open"
         /\ session'[s].sent = <<>>
         /\ session'[s].conversation = session[s].conversation]_vars

\* C4: a binary frame of whole samples, fewer than 0.3 x 16000 = 4800 of
\* them, makes an idle session send exactly one error event, call no
\* collaborator, keep its history and stay idle on the open connection.
C4_ShortFrameRejected ==
  [][\A s \in Sessions : \A nbytes \in FrameLengths :
       (HandleBinary(s, nbytes) /\ nbytes % 4 = 0 /\ nbytes \div 4 < 4800) =>
         /\ Len(session'[s].sent) = 1
         /\ session'[s].sent[1].type = "error"
         /\ session'[s].calls = <<>>
         /\ session'[s].conversation = session[s].conversation
         /\ session'[s].turns = session[s].turns
         /\ session'[s].pc = "idle"
         /\ session'[s].conn = "open"]_vars

\* a short frame was rejected while the history was not empty
C4_Witness ==
  \E s \in Sessions :
    /\ session[s].sent = <<ErrorShort>>
    /\ session[s].pc = "idle"
    /\ session[s].conversation # <<>>

\* C5: when the completion call of a turn fails, the agent_response of the
\* turn carries the fallback apology, the history is the context of the call
\* (ending with the user entry of the turn) plus exactly one assistant entry
\* holding the fallback, and the synthesis call is made with that text.
C5_CompletionFallback ==
  \A s \in Sessions :
    session[s].llm_failed =>
      LET h == session[s]
      IN  /\ Len(h.sent) >= 2
          /\ h.sent[2] = Event("agent_response", FALLBACK, 0)
          /\ \A i \in 1..Len(h.sent) :
               h.sent[i].type = "agent_response" => i = 2
          /\ h.llm_context # <<>>
          /\ h.llm_context[Len(h.llm_context)] = Entry("user", h.user_text)
          /\ h.conversation = Append(h.llm_context, Entry("assistant", FALLBACK))
          /\ h.calls = <<"stt", "llm", "tts">>
          /\ h.tts_text = FALLBACK
          /\ h.pc \in {"synthesizing", "sending_audio", "idle"}

\* a completion failed and the turn is in its synthesis stage
C5_Witness ==
  \E s \in Sessions :
    /\ session[s].llm_failed
    /\ session[s].pc = "synthesizing"
    /\ Len(session[s].conversation) > 2
\* a session has a collaborator call in flight
Transcribing(s) == session[s].pc = "transcribing"
InFlight(s) == session[s].pc \in {"transcribing", "completing", "synthesizing"}

C7_OthersProgress ==
  \A s, t \in Sessions :
    (s # t /\ InFlight(s) /\ session[t].pc = "idle" /\ session[t].conn = "open")
      => Scheduled(t)

\* the order of the kinds of frames sent in a turn
Rank(e) ==
  CASE e.type = "user_message" -> 1
    [] e.type = "agent_response" -> 2
    [] e.type = "tts_audio" -> 3
    [] e.type = "binary" -> 4
    [] OTHER -> 0

\* C8: the frames sent while handling an utterance are, in this order, the
\* user_message, the agent_response, the tts_audio header and the binary
\* frame: each kind at most once, and none without the kinds before it.
C8_TurnEventOrder ==
  \A s \in Sessions :
    LET q == session[s].sent
    IN  (\E i \in 1..Len(q) : Rank(q[i]) > 0) =>
          \A i \in 1..Len(q) : Rank(q[i]) = i

\* a turn sent all four frames
C8_Witness ==
  \E s \in Sessions :
    /\ Len(session[s].sent) = 4
    /\ session[s].sent[4].type = "binary"
    /\ session[s].pc = "idle"

\* C9: every tts_audio header is followed at once by one binary frame of
\* exactly size bytes (the frame is the next one sent while the connection
\* is open), and no binary frame is sent without its header right before it.
C9_HeaderThenAudio ==
  \A s \in Sessions :
    LET q == session[s].sent
    IN  \A i \in 1..Len(q) :
          /\ q[i].type = "binary" =>
               /\ i > 1
               /\ q[i - 1].type = "tts_audio"
               /\ q[i - 1].size = q[i].size
          /\ q[i].type = "tts_audio" =>
               IF i < Len(q)
               THEN q[i + 1].type = "binary" /\ q[i + 1].size = q[i].size
               ELSE session[s].pc = "sending_audio" \/ session[s].conn = "closed"

\* a header and its frame were sent and the session is idle again
C9_Witness ==
  \E s \in Sessions :
    LET q == session[s].sent
    IN  /\ session[s].pc = "idle"
        /\ session[s].conn = "open"
        /\ Len(q) = 4
        /\ q[3].type = "tts_audio"
        /\ q[4].type = "binary"
        /\ q[4].size = 2

\* C10: clear_history makes an idle session send history_cleared and empty
\* its history, and the context of the next completion call is the user
\* entry of the new utterance alone.
C10_ClearHistory ==
  /\ [][\A s \in Sessions :
          HandleText(s, "{\"type\": \"clear_history\"}") =>
            /\ session'[s].sent = <<Event("history_cleared", <<>>, 0)>>
            /\ session'[s].conversation = <<>>
            /\ session'[s].pc = "idle"]_vars
  /\ [](\A s \in Sessions :
          (session[s].epoch > 0 /\ session[s].turns = 0
             /\ session[s].pc = "completing") =>
            /\ session[s].llm_context = <<Entry("user", session[s].user_text)>>
            /\ session[s].user_text = Utterance(s))

\* the first completion call after a clear of a history that had been cut
\* to the window
C10_Witness ==
  \E s \in Sessions :
    /\ session[s].epoch > 0
    /\ session[s].turns = 0
    /\ session[s].pc = "completing"
    /\ session[s].trimmed

StreamOver(s) == stream[s].pc \in {"closed", "crashed"}

\* the step handles a stop_stream command of session s
StopStep(s) == StreamHandleText(s, "{\"type\": \"stop_stream\"}")

\* the step handles a chunk of session s and sends a partial_transcript
PartialStep(s) ==
  /\ \E nbytes \in ChunkLengths : \E result \in PartialResults :
       StreamHandleBinary(s, nbytes, result)
  /\ stream'[s].sent # <<>>
  /\ stream'[s].sent[1].type = "partial_transcript"

\* C11: a stop_stream handled while no stream is active (the first command of
\* the session, or a stop_stream after another one with no start_stream in
\* between) sends one final_transcript event with empty text, raises nothing,
\* and leaves the session idle, open and ready for the next command.
C11_IdleStopEmptyFinal ==
  [][\A s \in Sessions :
       (StopStep(s) /\ ~stream[s].is_streaming)
         => /\ stream'[s].sent = <<Event("final_transcript", <<>>, 0)>>
            /\ stream'[s].pc = "idle"
            /\ stream'[s].conn = "open"
            /\ ~stream'[s].is_streaming
            /\ stream'[s].partial_text = <<>>
            /\ ~stream'[s].misused]_vars

\* a second stop_stream in a row, after a stream that produced a partial, was
\* answered with an empty final_transcript
C11_Witness ==
  \E s \in Sessions :
    /\ stream[s].stops = 2
    /\ stream[s].since_start # <<>>
    /\ stream[s].sent = <<Event("final_transcript", <<>>, 0)>>
    /\ stream[s].pc = "idle"

\* C12 as stated: no partial_transcript event carries the text of the
\* partial_transcript event sent before it on the same connection.
C12_NoRepeatOnConnection ==
  [][\A s \in Sessions :
       PartialStep(s) => stream'[s].sent[1].text # stream[s].last_partial]_vars

\* C12 amended: a partial_transcript event never carries the text of the
\* partial_transcript event sent before it since the latest start_stream; its
\* text is not empty and is the text the session remembers.
C12_NoRepeatInStream ==
  [][\A s \in Sessions :
       PartialStep(s)
         => /\ stream'[s].sent[1].text # stream[s].since_start
            /\ stream'[s].sent[1].text # <<>>
            /\ stream'[s].sent[1].text = stream'[s].partial_text]_vars

\* a chunk whose transcript is the text already sent in this stream was
\* handled and no event was sent for it
C12_Witness ==
  \E s \in Sessions :
    /\ stream[s].suppressed
    /\ stream[s].is_streaming
    /\ stream[s].sent = <<>>
    /\ stream[s].since_start # <<>>

\* C16: the transcriber of a session is closed exactly once, when its handler
\* leaves (connection closed or an exception in the handler), never before,
\* and no transcriber method is called after the close.
C16_ReleasedOnceAtEnd ==
  \A s \in Sessions :
    /\ stream[s].closes = (IF StreamOver(s) THEN 1 ELSE 0)
    /\ (stream[s].engine = "closed") = StreamOver(s)
    /\ ~stream[s].misused

\* one handler left on an exception and one after streaming and a close of
\* the connection, each with its transcriber closed once
C16_Witness ==
  \E s, o \in Sessions :
    /\ stream[s].pc = "crashed" /\ stream[s].closes = 1
    /\ stream[o].pc = "closed" /\ stream[o].closes = 1
    /\ stream[o].last_partial # <<>>

\* C17 as stated: a stop_stream handled while a stream is active ends the
\* stream, stops the transcriber, sends one final_transcript event and
\* releases the transcriber of the session.
C17_StopReleases ==
  [][\A s \in Sessions :
       (StopStep(s) /\ stream[s].is_streaming)
         => /\ ~stream'[s].is_streaming
            /\ Len(stream'[s].sent) = 1
            /\ stream'[s].sent[1].type = "final_transcript"
            /\ stream'[s].closes = stream[s].closes + 1]_vars

\* C17 amended: a stop_stream handled while a stream is active ends the
\* stream, stops the transcriber, sends one final_transcript event with the
\* text remembered, and keeps the transcriber of the session, stopped and
\* not released, for the next start_stream.
C17_StopKeepsEngine ==
  [][\A s \in Sessions :
       (StopStep(s) /\ stream[s].is_streaming)
         => /\ ~stream'[s].is_streaming
            /\ stream'[s].pc = "idle"
            /\ stream'[s].sent =
                 <<Event("final_transcript", stream[s].partial_text, 0)>>
            /\ stream'[s].engine = "stopped"
            /\ stream'[s].closes = 0]_vars

\* an active stream with a partial was stopped: the final_transcript carries
\* the text and the transcriber is stopped, not closed
C17_Witness ==
  \E s \in Sessions :
    /\ stream[s].stops = 1
    /\ stream[s].sent # <<>>
    /\ stream[s].sent[1].type = "final_transcript"
    /\ stream[s].sent[1].text # <<>>
    /\ stream[s].engine = "stopped"
    /\ stream[s].closes = 0

\* the last element of a sequence
Last(q) == q[Len(q)]

\* C13: while the synthesis call of a turn is in flight, the last history
\* entry is the assistant entry holding the text given to the call, which is
\* the text of the agent_response sent, and the entry before it is the user
\* entry of the turn; while the completion call is in flight the history
\* already ends with the user entry and is the context given to the call.
C13_HistoryBeforeSynthesis ==
  \A s \in Sessions :
    LET h == session[s]
    IN  /\ h.pc = "synthesizing" =>
             /\ Len(h.conversation) >= 2
             /\ Last(h.conversation) = Entry("assistant", h.tts_text)
             /\ h.conversation[Len(h.conversation) - 1] = Entry("user", h.user_text)
             /\ h.sent # <<>>
             /\ Last(h.sent) = Event("agent_response", h.tts_text, 0)
             /\ h.calls = <<"stt", "llm", "tts">>
        /\ h.pc = "completing" =>
             /\ h.conversation # <<>>
             /\ Last(h.conversation) = Entry("user", h.user_text)
             /\ h.llm_context = h.conversation
             /\ h.calls = <<"stt", "llm">>

\* the synthesis call of a second turn is in flight after a completion that
\* succeeded
C13_Witness ==
  \E s \in Sessions :
    /\ session[s].pc = "synthesizing"
    /\ ~session[s].llm_failed
    /\ Len(session[s].conversation) = 4

\* C14: when the transcript of an accepted frame is empty or blank, the
\* session sends exactly one error event (No speech detected), sends no
\* user_message and no agent_response, makes no completion or synthesis
\* call, keeps its history and waits for the next message.
C14_BlankTranscript ==
  [][\A s \in Sessions : \A raw \in EngineResults(Utterance(s)) :
       (/\ TranscribeReturn(s, raw)
        /\ session[s].conn = "open"
        /\ Strip(TranscribeText(raw)) = <<>>)
         => /\ session'[s].sent = <<ErrorNoSpeech>>
            /\ session'[s].calls = <<"stt">>
            /\ session'[s].conversation = session[s].conversation
            /\ session'[s].turns = session[s].turns
            /\ session'[s].pc = "idle"
            /\ session'[s].conn = "open"]_vars

\* a blank transcript was reported while the history held a turn
C14_Witness ==
  \E s \in Sessions :
    /\ session[s].sent = <<ErrorNoSpeech>>
    /\ session[s].calls = <<"stt">>
    /\ session[s].pc = "idle"
    /\ Len(session[s].conversation) = 2

\* C15: when the synthesis call of a turn fails, the frames sent for the turn
\* are the user_message and the agent_response and nothing else (no tts_audio
\* header, no binary frame, no error event), the history ends with the user
\* and assistant entries of the turn, and the session waits for the next
\* message.
C15_SynthesisFailure ==
  [][\A s \in Sessions :
       TTSReturn(s, [ok |-> FALSE, size |-> 0])
         => /\ session'[s].sent =
                 << Event("user_message", session[s].user_text, 0),
                    Event("agent_response", session[s].response_text, 0) >>
            /\ session'[s].conversation = session[s].conversation
            /\ Last(session'[s].conversation) =
                 Entry("assistant", session[s].response_text)
            /\ session'[s].conversation[Len(session[s].conversation) - 1] =
                 Entry("user", session[s].user_text)
            /\ session'[s].pc = "idle"
            /\ session'[s].conn = session[s].conn]_vars

\* a synthesis failed on an open connection and the session is idle again
C15_Witness ==
  \E s \in Sessions :
    /\ session[s].tts_failed
    /\ session[s].pc = "idle"
    /\ session[s].conn = "open"
    /\ Len(session[s].sent) = 2
    /\ Len(session[s].conversation) = 2

\* C18: a step that ends a collaborator call of a turn on an open connection
\* takes the session to the next stage of the turn or back to idle, never
\* out of service: so every turn started comes back to idle when its calls
\* return or fail.
C18_TurnReturnsToIdle ==
  [][\A s \in Sessions :
       (/\ session[s].pc \in {"transcribing", "completing", "synthesizing",
                              "sending_audio"}
        /\ session[s].conn = "open"
        /\ session'[s].pc # session[s].pc)
         => session'[s].pc \in {"completing", "synthesizing", "sending_audio",
                                "idle"}]_vars

\* C19: a step of one session (a stage of a turn, a clear_history, its
\* termination by a close or an uncaught error) leaves the history and every
\* other part of the state of the other sessions as they were; the event loop
\* is held only by a session inside its transcription call, so a session
\* that waits for a message while another one is terminated can take it.
C19_SessionsIsolated ==
  /\ [][\A s \in Sessions :
          session'[s] # session[s] =>
            \A o \in Sessions \ {s} : session'[o] = session[o]]_vars
  /\ [](loop # "free" => session[loop].pc = "transcribing")
  /\ [](\A s, o \in Sessions :
          (s # o /\ ~Alive(s) /\ AwaitingMessage(o)) =>
             ENABLED RecvText(o, "{\"type\": \"ping\"}"))

\* one session crashed while the other one, with a turn in its history, has
\* its next turn in progress
C19_Witness ==
  \E s, o \in Sessions :
    /\ session[s].pc = "crashed"
    /\ session[o].pc = "completing"
    /\ Len(session[o].conversation) = 3

\* C20: a session has one stage of one turn in flight at a time. A frame that
\* arrives is appended to the frames that wait; a frame leaves them only when
\* the handler is idle, and it is the oldest one; the calls made and the
\* frames sent for the message in hand are those of one turn up to its stage.
C20_OneStageAtATime ==
  /\ [][\A s \in Sessions :
          inbox'[s] # inbox[s] =>
            \/ \E msg \in Messages : inbox'[s] = Append(inbox[s], msg)
            \/ /\ session[s].pc = "idle"
               /\ inbox[s] # <<>>
               /\ inbox'[s] = Tail(inbox[s])]_vars
  /\ [](\A s \in Sessions :
          LET h == session[s]
          IN  /\ h.pc = "transcribing" => h.calls = <<"stt">> /\ h.sent = <<>>
              /\ h.pc = "completing" =>
                   /\ h.calls = <<"stt", "llm">>
                   /\ h.sent = <<Event("user_message", h.user_text, 0)>>
              /\ h.pc \in {"synthesizing", "sending_audio"} =>
                   /\ h.calls = <<"stt", "llm", "tts">>
                   /\ SubSeq(h.sent, 1, 2) =
                        << Event("user_message", h.user_text, 0),
                           Event("agent_response", h.response_text, 0) >>
                   /\ Len(h.sent) = (IF h.pc = "synthesizing" THEN 2 ELSE 3))

\* two frames wait while the synthesis call of a second turn is in flight
C20_Witness ==
  \E s \in Sessions :
    /\ session[s].pc = "synthesizing"
    /\ Len(session[s].conversation) = 4
    /\ Len(inbox[s]) >= 2
    /\ inbox[s][1].bytes

\* C21: the message sequence handed to the completion call of a turn holds
\* at most 20 history entries, and its last entry is the user entry with the
\* transcript of the utterance of the turn.
C21_CompletionContext ==
  \A s \in Sessions :
    "llm" \in {session[s].calls[i] : i \in 1..Len(session[s].calls)} =>
      /\ session[s].llm_context # <<>>
      /\ Len(session[s].llm_context) <= 20
      /\ Last(session[s].llm_context) = Entry("user", session[s].user_text)
      /\ Strip(session[s].user_text) # <<>>

\* a completion call is in flight whose context was cut to the 20 entries
\* appended last
C21_Witness ==
  \E s \in Sessions :
    /\ session[s].pc = "completing"
    /\ session[s].trimmed
    /\ Len(session[s].llm_context) = 20
    /\ Len(session[s].appended) > 20

\* the step handles a chunk of whole samples of session s
ChunkStep(s) ==
  \E nbytes \in ChunkLengths : \E result \in PartialResults :
    /\ nbytes % BYTES_PER_SAMPLE = 0
    /\ StreamHandleBinary(s, nbytes, result)

\* C22: a chunk of whole samples taken while no stream is active (before any
\* start_stream, or after a stop_stream) is dropped: the transcriber is not
\* fed, nothing is sent, and is_streaming, the stored partial text and the
\* handler are as before.
C22_IdleChunkDropped ==
  [][\A s \in Sessions :
       (ChunkStep(s) /\ ~stream[s].is_streaming)
         => /\ stream'[s].engine = stream[s].engine
            /\ stream'[s].engine \in {"new", "stopped"}
            /\ stream'[s].sent = <<>>
            /\ ~stream'[s].is_streaming
            /\ stream'[s].partial_text = stream[s].partial_text
            /\ stream'[s].since_start = stream[s].since_start
            /\ stream'[s].last_partial = stream[s].last_partial
            /\ stream'[s].closes = stream[s].closes
            /\ stream'[s].pc = "idle"
            /\ stream'[s].conn = "open"]_vars

\* a chunk was dropped after a stream that had sent a partial was stopped
C22_Witness ==
  \E s \in Sessions :
    /\ stream[s].dropped
    /\ stream[s].engine = "stopped"
    /\ stream[s].last_partial # <<>>
    /\ stream[s].sent = <<>>

\* C23 as stated: every final_transcript carries the text of the latest
\* partial_transcript sent since the latest start_stream (empty when there
\* was none), and the stored partial text is empty after the stop.
C23_FinalIsLastPartial ==
  [][\A s \in Sessions :
       StopStep(s)
         => /\ stream'[s].sent =
                 <<Event("final_transcript", stream[s].since_start, 0)>>
            /\ stream'[s].partial_text = <<>>]_vars

\* C23 amended: the final_transcript of a stop_stream taken while a stream is
\* active carries the text of the latest partial_transcript sent since the
\* latest start_stream (empty when there was none); the final_transcript of
\* a stop_stream taken while no stream is active is empty; the stored
\* partial text is empty after the stop.
C23_FinalOfActiveStream ==
  [][\A s \in Sessions :
       StopStep(s)
         => /\ stream'[s].sent =
                 <<Event("final_transcript",
                         IF stream[s].stops = 0 /\ stream[s].engine # "new"
                         THEN stream[s].since_start
                         ELSE <<>>, 0)>>
            /\ stream'[s].partial_text = <<>>]_vars

\* a stream that sent partials was stopped and its final_transcript carries
\* the text of the latest one
C23_Witness ==
  \E s \in Sessions :
    /\ ~stream[s].is_streaming
    /\ stream[s].stops = 1
    /\ stream[s].since_start # <<>>
    /\ stream[s].sent = <<Event("final_transcript", stream[s].since_start, 0)>>
    /\ stream[s].last_partial = stream[s].since_start
    /\ stream[s].partial_text = <<>>

====
